---- MODULE Spec2Model ----
(***************************************************************************)
(* Model of plover_tinymod4_main.py: the circular ForthStack, the          *)
(* TinyMod4Machine key scanner / chord decoder, and the TinyMod4Extension  *)
(* output queue with its HID encoder worker thread.                        *)
(***************************************************************************)
EXTENDS Integers, Sequences, FiniteSets, TLC

(***************************************************************************)
(* Bounds of the model                                                     *)
(***************************************************************************)
\* number of hook calls (enqueues) the host makes in one run
MaxEnq == 3
\* largest backspace count the host asks for
MaxBs == 2
\* longest string the host sends
MaxStrLen == 2

(***************************************************************************)
(* Program constants                                                       *)
(***************************************************************************)
NO_MOD == 0
L_SHIFT == 2
\* scan code written for a character that is not in the lookup table
FallbackKey == 56
\* scan code of the backspace key
BackspaceKey == 42

VARIABLES
  \* ---- TinyMod4Extension ----
  started,     \* Thread.start() has been called
  hooks,       \* names of the engine hooks currently connected
  stopFlag,    \* self._stop (Event)
  buffer,      \* self._buffer, index 1 is Python index 0
  wpc,         \* position of the worker thread in run()/_wait()
  action,      \* the worker's local variable `action`
  hpc,         \* position of the host thread inside a hook
  spc,         \* position of the thread that calls stop()
  nextId,      \* history: identity the next enqueued action gets
  lateIds,     \* history: actions inserted after stop() had notified
  batch,       \* history: actions left in the buffer by the last pop
  processed,   \* history: actions processed, oldest first
  dev,         \* records written to /dev/hidg0 for the last processed action
  logged,      \* keycombo descriptors passed to log.info
  \* ---- hardware ----
  hw,          \* levels of the nine input pins and the two expander registers
  \* ---- TinyMod4Machine ----
  stack,       \* self._stack._stack
  sp,          \* self._stack._p
  pressed,     \* self._pressed
  merged,      \* local a of the last _read_all, -1 before the first call
  mpc,         \* position of the machine thread in run()/_scan()/_send()
  accA,        \* local a of _scan
  accB,        \* local b of _scan
  finished,    \* self.finished (Event)
  cycle,       \* what the last _send popped, decoded, mapped and notified
  seenA,       \* history: OR of the pin samples of the current press envelope
  seenB,       \* history: OR of its expander samples
  loopA,       \* history: OR of the pin samples of the accumulation loop
  loopB,       \* history: OR of its expander samples
  confirms,    \* history: masks of the confirmatory samples since detection
  mstate,      \* state the machine reports to the host
  scpc,        \* position of the thread that calls stop_capture()
  cpc,         \* position of the thread that calls _reconnect()
  connected,   \* local connected of _reconnect
  conn,        \* history: inputs and outcome of the last _connect
  attempts,    \* history: calls of _connect made by the current _reconnect
  calls,       \* history: calls of _reconnect
  fs,          \* a ForthStack of its own, outside the machine
  last,        \* history: the last operation on fs, the pointer before it
               \* and the value it pushed or returned
  wraps        \* history: "over" once a push has wrapped the pointer of
               \* fs, "under" once a pop has

extVars == <<started, hooks, stopFlag, buffer, wpc, action, hpc, spc,
             nextId, lateIds, batch, processed, dev, logged>>

hwVars == <<hw>>

macVars == <<stack, sp, pressed, merged, mpc, accA, accB, finished, cycle,
             seenA, seenB, loopA, loopB, confirms, mstate, scpc>>

connVars == <<cpc, connected, conn, attempts, calls>>

stkVars == <<fs, last, wraps>>

vars == <<extVars, hwVars, macVars, connVars, stkVars>>

(***************************************************************************)
(* Bitwise operators of Python on the integers the program uses            *)
(***************************************************************************)
RECURSIVE Pow2(_)
Pow2(n) == IF n = 0 THEN 1 ELSE 2 * Pow2(n - 1)

Bit(x, i) == (x \div Pow2(i)) % 2

\* x | y, x & y and x ^ y for x, y >= 0, bit by bit from the low end
BitOr(x, y) ==
  LET F[u \in Nat, v \in Nat] ==
        IF u = 0 THEN v
        ELSE IF v = 0 THEN u
        ELSE (IF u % 2 = 1 \/ v % 2 = 1 THEN 1 ELSE 0)
               + 2 * F[u \div 2, v \div 2]
  IN  F[x, y]

BitAnd(x, y) ==
  LET F[u \in Nat, v \in Nat] ==
        IF u = 0 \/ v = 0 THEN 0
        ELSE (IF u % 2 = 1 /\ v % 2 = 1 THEN 1 ELSE 0)
               + 2 * F[u \div 2, v \div 2]
  IN  F[x, y]

BitXor(x, y) ==
  LET F[u \in Nat, v \in Nat] ==
        IF u = 0 THEN v
        ELSE IF v = 0 THEN u
        ELSE (IF u % 2 # v % 2 THEN 1 ELSE 0) + 2 * F[u \div 2, v \div 2]
  IN  F[x, y]

\* x & m for any integer x and a mask 0 <= m < 2^16: Python's & works on
\* the two's complement of a negative x
AndMask(x, m) == BitAnd(x % Pow2(16), m)

\* x << n
Shl(x, n) == x * Pow2(n)

\* Python's ~x, x & y, x | y and x ^ y on integers of either sign
PyInvert(x) == -x - 1

PyAnd(x, y) ==
  LET F[u \in Int, v \in Int] ==
        IF u >= 0 /\ v >= 0 THEN BitAnd(u, v)
        ELSE IF u >= 0 THEN u - BitAnd(u, PyInvert(v))
        ELSE IF v >= 0 THEN v - BitAnd(v, PyInvert(u))
        ELSE PyInvert(BitOr(PyInvert(u), PyInvert(v)))
  IN  F[x, y]

PyOr(x, y) ==
  LET F[u \in Int, v \in Int] ==
        IF u >= 0 /\ v >= 0 THEN BitOr(u, v)
        ELSE PyInvert(PyAnd(PyInvert(u), PyInvert(v)))
  IN  F[x, y]

PyXor(x, y) ==
  LET F[u \in Int, v \in Int] ==
        IF u >= 0 /\ v >= 0 THEN BitXor(u, v)
        ELSE IF u >= 0 THEN PyInvert(BitXor(u, PyInvert(v)))
        ELSE IF v >= 0 THEN PyInvert(BitXor(PyInvert(u), v))
        ELSE BitXor(PyInvert(u), PyInvert(v))
  IN  F[x, y]

(***************************************************************************)
(* ForthStack: a stack is the record of the object's fields stack, p,      *)
(* stackSize and stackMask, and of the history field used: the indexes at  *)
(* which the list was read or written                                      *)
(***************************************************************************)
stackSize == 8
stackMask == 7

\* ForthStack.__init__
NewStack(size, mask) ==
  [stack |-> [i \in 0..(size - 1) |-> 0], p |-> 0,
   stackSize |-> size, stackMask |-> mask, used |-> {}]

\* the machine's ForthStack(8, 7)
ForthStack == NewStack(stackSize, stackMask)

\* self._stack[i] = n; an index outside the list raises and stores nothing
Store(list, i, n) == IF i \in DOMAIN list THEN [list EXCEPT ![i] = n] ELSE list

\* (the operators below bind their stack as a value s before using it)
\* self._stack[self._p] = n
Poke(st, n) ==
  CHOOSE r \in
    { [s EXCEPT !.stack = Store(@, s.p, n), !.used = @ \cup {s.p}] :
        s \in {st} }
    : TRUE

\* a push that does not mask the pointer
push_unmasked(st, n) ==
  CHOOSE r \in { Poke([s EXCEPT !.p = @ + 1], n) : s \in {st} } : TRUE

push(st, n) ==
  CHOOSE r \in
    { Poke([s EXCEPT !.p = AndMask(@ + 1, s.stackMask)], n) : s \in {st} }
    : TRUE

\* self._stack[self._p]
Top(st) ==
  CHOOSE r \in
    { IF s.p \in DOMAIN s.stack THEN s.stack[s.p] ELSE 0 : s \in {st} }
    : TRUE

\* the list is read at p
Touch(st) == CHOOSE r \in { [s EXCEPT !.used = @ \cup {s.p}] : s \in {st} } : TRUE

\* pop() returns Top(st) and leaves Popped(st)
Popped(st) ==
  CHOOSE r \in
    { [s EXCEPT !.used = @ \cup {s.p}, !.p = AndMask(@ - 1, s.stackMask)] :
        s \in {st} }
    : TRUE

drop(st) == Popped(st)

\* n times drop()
RECURSIVE Drops(_, _)
Drops(st, n) == IF n = 0 THEN st ELSE Drops(drop(st), n - 1)

back(st) == Drops(st, st.stackSize - 1)

dup(st) == push(Touch(st), Top(st))

swap(st) ==
  LET a == Top(st)
      s1 == Popped(st)
      b == Top(s1)
      s2 == Popped(s1)
  IN  push(push(s2, a), b)

over(st) ==
  LET a == Top(st)
      s1 == Popped(st)
      b == Top(s1)
      s2 == Popped(s1)
  IN  push(push(push(s2, b), a), b)

add(st) ==
  LET a == Top(st)
      s1 == Popped(st)
  IN  Poke(s1, a + Top(s1))

and_(st) ==
  LET a == Top(st)
      s1 == Popped(st)
  IN  Poke(s1, PyAnd(a, Top(s1)))

\* the bitwise and of the top two items instead of their or
or_as_and(st) ==
  LET a == Top(st)
      s1 == Popped(st)
  IN  Poke(s1, PyAnd(a, Top(s1)))

or_(st) ==
  LET a == Top(st)
      s1 == Popped(st)
  IN  Poke(s1, PyOr(a, Top(s1)))

xor(st) ==
  LET a == Top(st)
      s1 == Popped(st)
  IN  Poke(s1, PyXor(a, Top(s1)))

invert(st) == Poke(st, PyInvert(Top(st)))

negate(st) == Poke(st, -Top(st))

(***************************************************************************)
(* TinyMod4Machine: reading the keys                                       *)
(***************************************************************************)
\* a |= io.input(pin) << i for the nine pins 16, 20, 21, 1, 26, 19, 13, 6, 0;
\* pins[i + 1] is the level of the pin shifted by i
RECURSIVE PackPins(_, _)
PackPins(pins, n) ==
  IF n = 0 THEN 0
  ELSE BitOr(PackPins(pins, n - 1), Shl(pins[n], n - 1))

read_raw_keys(st, pins) == push(st, BitXor(PackPins(pins, 9), 511))

read_ab(st, lo, hi) == push(st, BitXor(BitOr(lo, Shl(hi, 8)), 65535))

\* _read_all: the stack it leaves, its local a and the value of _pressed
\* (each intermediate stack is bound as a value, one statement at a time)
read_all(st, h) ==
  CHOOSE r \in
    { [st |-> Popped(s5), a |-> Top(s5), pressed |-> Top(s5) # 0] :
        s5 \in { or_(s4) :
          s4 \in { over(s3) :
            s3 \in { over(s2) :
              s2 \in { read_ab(s1, h.lo, h.hi) :
                s1 \in { read_raw_keys(s0, h.pins) : s0 \in {st} } } } } } }
    : TRUE

(***************************************************************************)
(* The hardware: pins and expander registers are active-low                *)
(***************************************************************************)
\* the levels read when exactly the keys of downA (pins) and downB
\* (expander) are held down
HwOf(downA, downB) ==
  [pins |-> [i \in 1..9 |-> 1 - Bit(downA, i - 1)],
   lo |-> 255 - (downB % 256),
   hi |-> 255 - (downB \div 256)]

\* the keys that are down, as the hardware presents them
RECURSIVE PinsDown(_, _)
PinsDown(pins, n) ==
  IF n = 0 THEN 0 ELSE PinsDown(pins, n - 1) + (1 - pins[n]) * Pow2(n - 1)
DownA(h) == PinsDown(h.pins, 9)
DownB(h) == (255 - h.lo) + 256 * (255 - h.hi)

\* key positions the environment moves between while the scanner runs
ScanDownA == {0, 16}
ScanDownB == {0, 512}
ScanSamples == {HwOf(x, y) : x \in ScanDownA, y \in ScanDownB}

\* key positions used to exercise _read_all
ReadDownA == {0, 1, 8, 16, 255, 256, 341, 511}
ReadDownB == {0, 1, 128, 256, 512, 255, 32768, 43690, 65280, 65535}
ReadSamples == {HwOf(x, y) : x \in ReadDownA, y \in ReadDownB}

\* accumulated pairs used to exercise _send
SendA == {0, 1, 2, 4, 8, 16, 32, 64, 128, 256, 272, 341, 511}
SendB == {0, 1, 2, 4, 8, 16, 32, 64, 128, 256, 512, 1024, 2048, 4096, 8192,
          16384, 32768, 520, 43690, 65535}

keys_change ==
  /\ \E h \in ScanSamples : h # hw /\ hw' = h
  /\ UNCHANGED <<extVars, macVars, connVars, stkVars>>

(***************************************************************************)
(* TinyMod4Machine: _scan, _send and run                                   *)
(***************************************************************************)
\* the if chain of _send in source order: field, mask, key name
SendTable ==
  << <<"a", 16, "S1-">>, <<"a", 8, "S2-">>, <<"a", 32, "T-">>,
     <<"a", 4, "K-">>, <<"a", 64, "P-">>, <<"a", 2, "W-">>,
     <<"a", 128, "H-">>, <<"a", 1, "R-">>, <<"b", 8, "A-">>,
     <<"b", 16, "O-">>, <<"a", 256, "*1">>, <<"b", 512, "*2">>,
     <<"b", 32, "#1">>, <<"b", 64, "-E">>, <<"b", 128, "-U">>,
     <<"b", 32768, "-F">>, <<"b", 1, "-R">>, <<"b", 16384, "-P">>,
     <<"b", 2, "-B">>, <<"b", 8192, "-L">>, <<"b", 4, "-G">>,
     <<"b", 4096, "-T">>, <<"b", 2048, "-S">>, <<"b", 256, "-D">>,
     <<"b", 1024, "-Z">> >>

\* keys after the first n if statements of _send
RECURSIVE Decode(_, _, _, _)
Decode(tbl, a, b, n) ==
  IF n = 0 THEN <<>>
  ELSE LET e == tbl[n]
           v == IF e[1] = "a" THEN a ELSE b
           prev == Decode(tbl, a, b, n - 1)
       IN  IF BitAnd(v, e[2]) # 0 THEN Append(prev, e[3]) ELSE prev

\* an if chain that tests the mask of '*1' a second time for '*2'
send_keys_star(a, b) ==
  Decode([SendTable EXCEPT ![12] = <<"a", 256, "*2">>], a, b, Len(SendTable))

send_keys(a, b) == Decode(SendTable, a, b, Len(SendTable))

\* self.keymap.keys_to_actions(keys): the host's keymap drops the keys it
\* maps to no action
KeyNames == {SendTable[i][3] : i \in DOMAIN SendTable}
NoOpSets == {{}, {"S1-"}, {"*1", "*2"}, KeyNames}
keys_to_actions(keys, noop) == SelectSeq(keys, LAMBDA k : k \notin noop)

\* _on_stroke notifies whatever the keymap returns
on_stroke_always(steno) == TRUE

\* _on_stroke: if steno_keys: self._notify(steno_keys)
on_stroke(steno) == steno # <<>>

NoCycle == [a |-> -1]
AllUp == HwOf(0, 0)

InitMac ==
  /\ stack = ForthStack.stack
  /\ sp = ForthStack.p
  /\ pressed = FALSE
  /\ merged = -1
  /\ mpc = "start"
  /\ accA = 0
  /\ accB = 0
  /\ finished = FALSE
  /\ cycle = NoCycle
  /\ seenA = 0
  /\ seenB = 0
  /\ loopA = 0
  /\ loopB = 0
  /\ confirms = <<>>
  /\ mstate = "initializing"
  /\ scpc = "idle"

St ==
  [stack |-> stack, p |-> sp, stackSize |-> stackSize,
   stackMask |-> stackMask, used |-> {}]

\* run(): self._ready()
run_ready ==
  /\ mpc = "start"
  /\ mpc' = "loop"
  /\ mstate' = "ready"
  /\ UNCHANGED <<stack, sp, pressed, merged, accA, accB, finished, cycle,
                 seenA, seenB, loopA, loopB, confirms, scpc>>
  /\ UNCHANGED <<extVars, hwVars, connVars, stkVars>>

\* run(): while not self.finished.isSet(), then the call of _scan
run_loop ==
  /\ mpc = "loop"
  /\ mpc' = IF finished THEN "exit" ELSE "scan"
  /\ cycle' = NoCycle
  /\ seenA' = 0 /\ seenB' = 0 /\ loopA' = 0 /\ loopB' = 0
  /\ confirms' = <<>>
  /\ UNCHANGED <<stack, sp, pressed, merged, accA, accB, finished, mstate,
                 scpc>>
  /\ UNCHANGED <<extVars, hwVars, connVars, stkVars>>

\* an outer test that is made once: after the confirmatory sample the scan
\* goes on to accumulate whatever that sample was
scan_outer_once ==
  /\ mpc = "scan"
  /\ IF ~pressed /\ confirms = <<>>
       THEN mpc' = "idle" /\ UNCHANGED <<accA, accB>>
       ELSE mpc' = "acc" /\ accA' = 0 /\ accB' = 0
  /\ UNCHANGED <<stack, sp, pressed, merged, finished, cycle,
                 seenA, seenB, loopA, loopB, confirms, mstate, scpc>>
  /\ UNCHANGED <<extVars, hwVars, connVars, stkVars>>

\* _scan: the outer while not self._pressed, and a = 0, b = 0 on leaving it
scan_outer ==
  /\ mpc = "scan"
  /\ IF ~pressed
       THEN mpc' = "idle" /\ UNCHANGED <<accA, accB>>
       ELSE mpc' = "acc" /\ accA' = 0 /\ accB' = 0
  /\ UNCHANGED <<stack, sp, pressed, merged, finished, cycle,
                 seenA, seenB, loopA, loopB, confirms, mstate, scpc>>
  /\ UNCHANGED <<extVars, hwVars, connVars, stkVars>>

\* _scan: the inner while not self._pressed: self._read_all()
scan_idle ==
  /\ mpc = "idle"
  /\ IF ~pressed
       THEN \E r \in {read_all(St, hw)} :
              /\ stack' = r.st.stack
              /\ sp' = r.st.p
              /\ pressed' = r.pressed
              /\ merged' = r.a
              /\ seenA' = DownA(hw)
              /\ seenB' = DownB(hw)
              /\ confirms' = <<>>
              /\ mpc' = "idle"
       ELSE /\ mpc' = "settle"
            /\ UNCHANGED <<stack, sp, pressed, merged, seenA, seenB,
                           confirms>>
  /\ UNCHANGED <<accA, accB, finished, cycle, loopA, loopB, mstate, scpc>>
  /\ UNCHANGED <<extVars, hwVars, connVars, stkVars>>

\* _scan: time.sleep(0.03); self._read_all()
scan_confirm ==
  /\ mpc = "settle"
  /\ \E r \in {read_all(St, hw)} :
       /\ stack' = r.st.stack
       /\ sp' = r.st.p
       /\ pressed' = r.pressed
       /\ merged' = r.a
       /\ confirms' = Append(confirms, r.a)
  /\ seenA' = BitOr(seenA, DownA(hw))
  /\ seenB' = BitOr(seenB, DownB(hw))
  /\ mpc' = "scan"
  /\ UNCHANGED <<accA, accB, finished, cycle, loopA, loopB, mstate, scpc>>
  /\ UNCHANGED <<extVars, hwVars, connVars, stkVars>>

\* b | pop() written as an assignment, which keeps the last sample only
AccAssign(acc, v) == v

\* b |= self._stack.pop()
Acc(acc, v) == BitOr(acc, v)

\* _scan: while self._pressed: read, b |= pop, a |= pop; then push a, push b
scan_acc ==
  /\ mpc = "acc"
  /\ IF pressed
       THEN \E r \in {read_all(St, hw)} :
              /\ accB' = Acc(accB, Top(r.st))
              /\ accA' = Acc(accA, Top(Popped(r.st)))
              /\ stack' = r.st.stack
              /\ sp' = Popped(Popped(r.st)).p
              /\ pressed' = r.pressed
              /\ merged' = r.a
              /\ seenA' = BitOr(seenA, DownA(hw))
              /\ seenB' = BitOr(seenB, DownB(hw))
              /\ loopA' = BitOr(loopA, DownA(hw))
              /\ loopB' = BitOr(loopB, DownB(hw))
              /\ mpc' = "acc"
       ELSE LET s2 == push(push(St, accA), accB) IN
              /\ stack' = s2.stack
              /\ sp' = s2.p
              /\ mpc' = "send"
              /\ UNCHANGED <<accA, accB, pressed, merged, seenA, seenB,
                             loopA, loopB>>
  /\ UNCHANGED <<finished, cycle, confirms, mstate, scpc>>
  /\ UNCHANGED <<extVars, hwVars, connVars, stkVars>>

\* a _send that pops a first and b second
send_swapped ==
  /\ mpc = "send"
  /\ \E noop \in NoOpSets :
       LET a == Top(St)
           b == Top(Popped(St))
           keys == send_keys(a, b)
           steno == IF keys # <<>> THEN keys_to_actions(keys, noop) ELSE <<>>
       IN  cycle' = [a |-> a, b |-> b, keys |-> keys, steno |-> steno,
                     notified |-> keys # <<>> /\ on_stroke(steno)]
  /\ sp' = Popped(Popped(St)).p
  /\ mpc' = "loop"
  /\ UNCHANGED <<stack, pressed, merged, accA, accB, finished,
                 seenA, seenB, loopA, loopB, confirms, mstate, scpc>>
  /\ UNCHANGED <<extVars, hwVars, connVars, stkVars>>

\* _send, with _on_stroke
send ==
  /\ mpc = "send"
  /\ \E noop \in NoOpSets :
       LET b == Top(St)
           a == Top(Popped(St))
           keys == send_keys(a, b)
           steno == IF keys # <<>> THEN keys_to_actions(keys, noop) ELSE <<>>
       IN  cycle' = [a |-> a, b |-> b, keys |-> keys, steno |-> steno,
                     notified |-> keys # <<>> /\ on_stroke(steno)]
  /\ sp' = Popped(Popped(St)).p
  /\ mpc' = "loop"
  /\ UNCHANGED <<stack, pressed, merged, accA, accB, finished,
                 seenA, seenB, loopA, loopB, confirms, mstate, scpc>>
  /\ UNCHANGED <<extVars, hwVars, connVars, stkVars>>

\* stop_capture(): ThreadedStenotypeBase sets self.finished, then joins the
\* machine thread
stop_capture ==
  /\ scpc = "idle"
  /\ ~finished
  /\ finished' = TRUE
  /\ scpc' = "join"
  /\ UNCHANGED <<stack, sp, pressed, merged, mpc, accA, accB, cycle,
                 seenA, seenB, loopA, loopB, confirms, mstate>>
  /\ UNCHANGED <<extVars, hwVars, connVars, stkVars>>

\* stop_capture(): the join has returned, self._stopped()
stop_capture_stopped ==
  /\ scpc = "join"
  /\ mpc = "exit"
  /\ mstate' = "stopped"
  /\ scpc' = "done"
  /\ UNCHANGED <<stack, sp, pressed, merged, mpc, accA, accB, finished, cycle,
                 seenA, seenB, loopA, loopB, confirms>>
  /\ UNCHANGED <<extVars, hwVars, connVars, stkVars>>

(***************************************************************************)
(* TinyMod4Machine: _connect and _reconnect                                *)
(***************************************************************************)
\* number of times the host calls _reconnect
MaxReconnects == 2

NoConn == [ret |-> FALSE, state |-> "none"]

\* the statement of the try block of _connect that raises, if any:
\* io.setup, smbus.SMBus, write_byte_data, io.input
FailPoints == {"none", "setup", "smbus", "write", "input"}

InitConn ==
  /\ cpc = "idle"
  /\ connected = FALSE
  /\ conn = NoConn
  /\ attempts = 0
  /\ calls = 0

\* a _connect that takes a high mode-select pin for NKRO
connect_high(fail, pin) ==
  IF fail # "none" THEN [ret |-> FALSE, state |-> "error"]
  ELSE IF pin = 0 THEN [ret |-> FALSE, state |-> "error"]
  ELSE [ret |-> TRUE, state |-> "ready"]

\* _connect: its return value and the state it leaves the machine in.
\* fail: the statement of the try block that raises; pin: the level of the
\* mode-select pin
connect(fail, pin) ==
  IF fail # "none" THEN [ret |-> FALSE, state |-> "error"]
  ELSE IF pin # 0 THEN [ret |-> FALSE, state |-> "error"]
  ELSE [ret |-> TRUE, state |-> "ready"]

\* the assignment connected = self._connect()
Connect(fail, pin) ==
  /\ connected' = connect(fail, pin).ret
  /\ mstate' = connect(fail, pin).state
  /\ conn' = connect(fail, pin) @@ [fail |-> fail, pin |-> pin]
  /\ attempts' = attempts + 1

\* _reconnect: connected = self._connect()
reconnect_first ==
  /\ cpc = "idle"
  /\ calls < MaxReconnects
  /\ calls' = calls + 1
  /\ attempts = 0
  /\ \E fail \in FailPoints, pin \in {0, 1} : Connect(fail, pin)
  /\ cpc' = "while"
  /\ UNCHANGED <<stack, sp, pressed, merged, mpc, accA, accB, finished, cycle,
                 seenA, seenB, loopA, loopB, confirms, scpc>>
  /\ UNCHANGED <<extVars, hwVars, stkVars>>

\* _reconnect: while not self.finished.isSet() and not connected
reconnect_while ==
  /\ cpc = "while"
  /\ cpc' = IF ~finished /\ ~connected THEN "sleep" ELSE "done"
  /\ UNCHANGED <<connected, conn, attempts, calls>>
  /\ UNCHANGED <<extVars, hwVars, macVars, stkVars>>

\* _reconnect: time.sleep(0.5); connected = self._connect(); return connected
reconnect_retry ==
  /\ cpc = "sleep"
  /\ \E fail \in FailPoints, pin \in {0, 1} : Connect(fail, pin)
  /\ cpc' = "done"
  /\ UNCHANGED calls
  /\ UNCHANGED <<stack, sp, pressed, merged, mpc, accA, accB, finished, cycle,
                 seenA, seenB, loopA, loopB, confirms, scpc>>
  /\ UNCHANGED <<extVars, hwVars, stkVars>>

\* _reconnect has returned; the host may call it again
reconnect_return ==
  /\ cpc = "done"
  /\ cpc' = "idle"
  /\ attempts' = 0
  /\ UNCHANGED <<connected, conn, calls>>
  /\ UNCHANGED <<extVars, hwVars, macVars, stkVars>>

Reconnect ==
  reconnect_first \/ reconnect_while \/ reconnect_retry \/ reconnect_return

(***************************************************************************)
(* ForthStack: the operations on a stack of any power-of-two size          *)
(***************************************************************************)
\* the powers of two the stacks are sized with
StackSizes == {1, 2, 4}
\* the items are -ValBound .. ValBound
ValBound == 2

Vals == (0 - ValBound)..ValBound

NoOp == [op |-> "none", p |-> 0, n |-> 0]

\* ForthStack(size, size - 1)
InitStack ==
  /\ fs \in {NewStack(size, size - 1) : size \in StackSizes}
  /\ last = NoOp
  /\ wraps = {}

\* fs when an operation begins
Fresh == [fs EXCEPT !.used = {}]

\* the operation op leaves the stack st, having pushed or returned n
Becomes(op, st, n) ==
  /\ \A i \in DOMAIN st.stack : st.stack[i] \in Vals
  /\ fs' = st
  /\ last' = [op |-> op, p |-> fs.p, n |-> n]
  /\ wraps' = wraps \cup (IF op = "push" /\ fs.p = fs.stackSize - 1
                            THEN {"over"}
                          ELSE IF op = "pop" /\ fs.p = 0 THEN {"under"}
                          ELSE {})
  /\ UNCHANGED <<extVars, hwVars, macVars, connVars>>

do_push == \E n \in Vals : Becomes("push", push(Fresh, n), n)
do_pop == Becomes("pop", Popped(Fresh), Top(Fresh))
do_drop == Becomes("drop", drop(Fresh), 0)
do_back == Becomes("back", back(Fresh), 0)
do_dup == Becomes("dup", dup(Fresh), 0)
do_swap == Becomes("swap", swap(Fresh), 0)
do_over == Becomes("over", over(Fresh), 0)
do_add == Becomes("add", add(Fresh), 0)
do_and == Becomes("and_", and_(Fresh), 0)
do_or == Becomes("or_", or_(Fresh), 0)
do_xor == Becomes("xor", xor(Fresh), 0)
do_invert == Becomes("invert", invert(Fresh), 0)
do_negate == Becomes("negate", negate(Fresh), 0)

Scanner == run_ready \/ run_loop \/ scan_outer \/ scan_idle \/ scan_confirm
             \/ scan_acc \/ send


(***************************************************************************)
(* HID lookup table, self._hid_lut.  A character is a one-character       *)
(* string; newline, backspace, tab, backslash, the double quote and the    *)
(* backtick are written NL, BS, TAB, BACKSLASH, DQUOTE and BACKTICK.       *)
(***************************************************************************)
LowerCase == <<"a","b","c","d","e","f","g","h","i","j","k","l","m",
               "n","o","p","q","r","s","t","u","v","w","x","y","z">>
UpperCase == <<"A","B","C","D","E","F","G","H","I","J","K","L","M",
               "N","O","P","Q","R","S","T","U","V","W","X","Y","Z">>
Digits == <<"1","2","3","4","5","6","7","8","9","0">>
ShiftedDigits == <<"@","#","$","%","^","&","*","(",")">>

Range(f) == {f[i] : i \in DOMAIN f}
IndexOf(f, c) == CHOOSE i \in DOMAIN f : f[i] = c

HidLutKeys ==
  Range(LowerCase) \cup Range(UpperCase) \cup Range(Digits)
    \cup Range(ShiftedDigits)
    \cup {"!", "NL", "BS", "TAB", " ", "-", "_", "=", "+", "[", "{", "]", "}",
          "BACKSLASH", "|", ";", ":", "'", "DQUOTE", "BACKTICK", "~", ",", "<", ".", ">",
          "/", "?"}

hid_lut(c) ==
  IF c \in Range(LowerCase) THEN <<NO_MOD, 3 + IndexOf(LowerCase, c)>>
  ELSE IF c \in Range(UpperCase) THEN <<L_SHIFT, 3 + IndexOf(UpperCase, c)>>
  ELSE IF c \in Range(Digits) THEN <<NO_MOD, 29 + IndexOf(Digits, c)>>
  ELSE IF c \in Range(ShiftedDigits)
       THEN <<L_SHIFT, 30 + IndexOf(ShiftedDigits, c)>>
  ELSE CASE c = "!"   -> <<NO_MOD, 30>>
         [] c = "NL"  -> <<NO_MOD, 40>>
         [] c = "BS"  -> <<NO_MOD, 42>>
         [] c = "TAB" -> <<NO_MOD, 43>>
         [] c = " "   -> <<NO_MOD, 44>>
         [] c = "-"   -> <<NO_MOD, 45>>
         [] c = "_"   -> <<L_SHIFT, 45>>
         [] c = "="   -> <<NO_MOD, 46>>
         [] c = "+"   -> <<L_SHIFT, 46>>
         [] c = "["   -> <<NO_MOD, 47>>
         [] c = "{"   -> <<L_SHIFT, 47>>
         [] c = "]"   -> <<NO_MOD, 48>>
         [] c = "}"   -> <<L_SHIFT, 48>>
         [] c = "BACKSLASH" -> <<NO_MOD, 49>>
         [] c = "|"   -> <<L_SHIFT, 49>>
         [] c = ";"   -> <<NO_MOD, 51>>
         [] c = ":"   -> <<L_SHIFT, 51>>
         [] c = "'"   -> <<NO_MOD, 52>>
         [] c = "DQUOTE" -> <<L_SHIFT, 52>>
         [] c = "BACKTICK" -> <<NO_MOD, 53>>
         [] c = "~"   -> <<L_SHIFT, 53>>
         [] c = ","   -> <<NO_MOD, 54>>
         [] c = "<"   -> <<L_SHIFT, 54>>
         [] c = "."   -> <<NO_MOD, 55>>
         [] c = ">"   -> <<L_SHIFT, 55>>
         [] c = "/"   -> <<NO_MOD, 56>>
         [] c = "?"   -> <<L_SHIFT, 56>>

(***************************************************************************)
(* HID encoder: the records one action makes the worker write              *)
(***************************************************************************)
\* struct.pack("BBBBL", mod, 0x00, key, 0x00, 0x00000000), field by field
Report(mod, key) == <<mod, 0, key, 0, 0>>
\* struct.pack("Q", 0)
Trailer == <<0>>

\* a loop body that leaves out the trailer record
CharRecordsNoTrailer(c) ==
  IF c \in HidLutKeys
    THEN <<Report(hid_lut(c)[1], hid_lut(c)[2])>>
    ELSE <<Report(NO_MOD, FallbackKey)>>

\* a loop body that writes nothing for a character missing from the table
CharRecordsSkipUnmapped(c) ==
  IF c \in HidLutKeys
    THEN <<Report(hid_lut(c)[1], hid_lut(c)[2]), Trailer>>
    ELSE <<>>

\* body of the for loop over the characters: the try block, or the except
\* block when the lookup raises KeyError
CharRecords(c) ==
  IF c \in HidLutKeys
    THEN <<Report(hid_lut(c)[1], hid_lut(c)[2]), Trailer>>
    ELSE <<Report(NO_MOD, FallbackKey), Trailer>>

RECURSIVE EncodeString(_)
EncodeString(s) ==
  IF s = <<>> THEN <<>>
  ELSE CharRecords(Head(s)) \o EncodeString(Tail(s))

\* a loop that runs once more than range(n)
RECURSIVE EncodeBackspacesOffByOne(_)
EncodeBackspacesOffByOne(n) ==
  IF n < 0 THEN <<>>
  ELSE <<Report(NO_MOD, BackspaceKey), Trailer>>
         \o EncodeBackspacesOffByOne(n - 1)

\* for b in range(n): an empty range when n <= 0
RECURSIVE EncodeBackspaces(_)
EncodeBackspaces(n) ==
  IF n <= 0 THEN <<>>
  ELSE <<Report(NO_MOD, BackspaceKey), Trailer>> \o EncodeBackspaces(n - 1)

(***************************************************************************)
(* Inputs of the hooks                                                     *)
(***************************************************************************)
\* "BEL" stands for a control character that is absent from the table
Chars == {"a", "b", "A", "BEL"}
Strings == UNION {[1..k -> Chars] : k \in 0..MaxStrLen}
Counts == 0..MaxBs
Combos == {"Control_L(c)"}
\* the payloads used where only the interleaving matters
QueueStrings == {<<"a">>}
QueueCounts == {1}

NoAction == [type |-> "none"]
HookNames == {"send_string", "send_backspaces", "send_key_combination"}

(***************************************************************************)
(* TinyMod4Extension                                                       *)
(***************************************************************************)
InitExt ==
  /\ started = FALSE
  /\ hooks = {}
  /\ stopFlag = FALSE
  /\ buffer = <<>>
  /\ wpc = "new"
  /\ action = NoAction
  /\ hpc = "idle"
  /\ spc = "idle"
  /\ nextId = 1
  /\ lateIds = {}
  /\ batch = {}
  /\ processed = <<>>
  /\ dev = <<>>
  /\ logged = <<>>

\* start(): connect the three hooks, then Thread.start()
start ==
  /\ ~started
  /\ started' = TRUE
  /\ hooks' = HookNames
  /\ wpc' = "outer"
  /\ UNCHANGED <<stopFlag, buffer, action, hpc, spc, nextId,
                 lateIds, batch, processed, dev, logged>>
  /\ UNCHANGED <<hwVars, macVars, connVars, stkVars>>

\* the effect of self._lock.notify() on the worker: a thread blocked in
\* self._lock.wait() returns from _wait() to the head of the outer loop,
\* a notify without a waiter is lost
Notified(pc) == IF pc = "waiting" THEN "outer" ELSE pc

\* self._buffer.insert(0, item), first statement of the three hooks
Insert(hook, item) ==
  /\ hpc = "idle"
  /\ hook \in hooks
  /\ buffer' = <<item @@ [id |-> nextId]>> \o buffer
  /\ nextId' = nextId + 1
  /\ lateIds' = IF spc \in {"disc1", "disc2", "disc3", "done"}
                  THEN lateIds \cup {nextId} ELSE lateIds
  /\ hpc' = "notify"
  /\ UNCHANGED <<started, hooks, stopFlag, wpc, action, spc, batch,
                 processed, dev, logged>>
  /\ UNCHANGED <<hwVars, macVars, connVars, stkVars>>

send_string(s) ==
  Insert("send_string", [type |-> "string", string |-> s])

send_backspaces(b) ==
  Insert("send_backspaces", [type |-> "backspace", backspace |-> b])

send_key_combination(c) ==
  Insert("send_key_combination", [type |-> "keycombo", keycombo |-> c])

\* self._notify(), second statement of the three hooks
hook_notify ==
  /\ hpc = "notify"
  /\ hpc' = "idle"
  /\ wpc' = Notified(wpc)
  /\ UNCHANGED <<started, hooks, stopFlag, buffer, action, spc, nextId,
                 lateIds, batch, processed, dev, logged>>
  /\ UNCHANGED <<hwVars, macVars, connVars, stkVars>>

\* stop(): self._stop.set()
stop_set ==
  /\ started
  /\ spc = "idle"
  /\ stopFlag' = TRUE
  /\ spc' = "notify"
  /\ UNCHANGED <<started, hooks, buffer, wpc, action, hpc, nextId,
                 lateIds, batch, processed, dev, logged>>
  /\ UNCHANGED <<hwVars, macVars, connVars, stkVars>>

\* stop(): self._notify()
stop_notify ==
  /\ spc = "notify"
  /\ wpc' = Notified(wpc)
  /\ spc' = "disc1"
  /\ UNCHANGED <<started, hooks, stopFlag, buffer, action, hpc, nextId,
                 lateIds, batch, processed, dev, logged>>
  /\ UNCHANGED <<hwVars, macVars, connVars, stkVars>>

\* stop(): the three hook_disconnect calls, in order
stop_disconnect ==
  /\ spc \in {"disc1", "disc2", "disc3"}
  /\ hooks' = hooks \ {CASE spc = "disc1" -> "send_string"
                         [] spc = "disc2" -> "send_backspaces"
                         [] spc = "disc3" -> "send_key_combination"}
  /\ spc' = CASE spc = "disc1" -> "disc2"
              [] spc = "disc2" -> "disc3"
              [] spc = "disc3" -> "done"
  /\ UNCHANGED <<started, stopFlag, buffer, wpc, action, hpc, nextId,
                 lateIds, batch, processed, dev, logged>>
  /\ UNCHANGED <<hwVars, macVars, connVars, stkVars>>

\* run(): while not self._stop.isSet()
run_outer ==
  /\ wpc = "outer"
  /\ wpc' = IF stopFlag THEN "done" ELSE "inner"
  /\ UNCHANGED <<started, hooks, stopFlag, buffer, action, hpc, spc, nextId,
                 lateIds, batch, processed, dev, logged>>
  /\ UNCHANGED <<hwVars, macVars, connVars, stkVars>>

\* run(): while len(self._buffer) > 0
run_inner ==
  /\ wpc = "inner"
  /\ wpc' = IF Len(buffer) > 0 THEN "pop" ELSE "wait"
  /\ UNCHANGED <<started, hooks, stopFlag, buffer, action, hpc, spc, nextId,
                 lateIds, batch, processed, dev, logged>>
  /\ UNCHANGED <<hwVars, macVars, connVars, stkVars>>

\* a pop that takes the item at index 0, the end the hooks insert at
PopFront(buf) == [item |-> Head(buf), rest |-> Tail(buf)]

\* a pop that returns the last item and leaves it in the list
PopKeep(buf) == [item |-> buf[Len(buf)], rest |-> buf]

\* list.pop(): remove and return the last item
Pop(buf) == [item |-> buf[Len(buf)], rest |-> SubSeq(buf, 1, Len(buf) - 1)]

Ids(buf) == {buf[i].id : i \in DOMAIN buf}

\* run(): action = self._buffer.pop()
run_pop ==
  /\ wpc = "pop"
  /\ action' = Pop(buffer).item
  /\ buffer' = Pop(buffer).rest
  /\ batch' = Ids(Pop(buffer).rest)
  /\ wpc' = "process"
  /\ UNCHANGED <<started, hooks, stopFlag, hpc, spc, nextId, lateIds,
                 processed, dev, logged>>
  /\ UNCHANGED <<hwVars, macVars, connVars, stkVars>>

\* a chain whose keycombo branch writes a report of its own
WrittenKeycombo(act) ==
  CASE act.type = "string" -> EncodeString(act.string)
    [] act.type = "backspace" -> EncodeBackspaces(act.backspace)
    [] OTHER -> <<Report(NO_MOD, 0), Trailer>>

\* what the if / elif chain on action["type"] writes to the device
Written(act) ==
  CASE act.type = "string" -> EncodeString(act.string)
    [] act.type = "backspace" -> EncodeBackspaces(act.backspace)
    [] OTHER -> <<>>

\* run(): the if / elif chain on action["type"]
run_process ==
  /\ wpc = "process"
  /\ dev' = Written(action)
  /\ logged' = IF action.type = "keycombo"
                 THEN Append(logged, action.keycombo) ELSE logged
  /\ processed' = Append(processed, [id |-> action.id, rest |-> batch])
  /\ wpc' = "inner"
  /\ UNCHANGED <<started, hooks, stopFlag, buffer, action, hpc, spc, nextId,
                 lateIds, batch>>
  /\ UNCHANGED <<hwVars, macVars, connVars, stkVars>>

\* run(): self._wait(), which blocks in self._lock.wait()
wait ==
  /\ wpc = "wait"
  /\ wpc' = "waiting"
  /\ UNCHANGED <<started, hooks, stopFlag, buffer, action, hpc, spc, nextId,
                 lateIds, batch, processed, dev, logged>>
  /\ UNCHANGED <<hwVars, macVars, connVars, stkVars>>

Worker == run_outer \/ run_inner \/ run_pop \/ run_process \/ wait
Stopper == stop_set \/ stop_notify \/ stop_disconnect

\* no ForthStack besides the machine's
InitStk ==
  /\ fs = NewStack(1, 0)
  /\ last = NoOp
  /\ wraps = {}

Init == InitExt /\ InitMac /\ InitConn /\ InitStk /\ hw = AllUp

Next ==
  \/ start
  \/ nextId <= MaxEnq /\ \E s \in QueueStrings : send_string(s)
  \/ nextId <= MaxEnq /\ \E b \in QueueCounts : send_backspaces(b)
  \/ nextId <= MaxEnq /\ \E c \in Combos : send_key_combination(c)
  \/ hook_notify
  \/ Stopper
  \/ Worker

Spec == Init /\ [][Next]_vars

\* Every thread that is inside a function keeps running: the worker thread,
\* a hook that has inserted its item, stop() once it has set the flag.
\* Nothing obliges the host to call start(), a hook or stop().
FairSpec ==
  /\ Spec
  /\ WF_vars(Worker)
  /\ WF_vars(hook_notify)
  /\ WF_vars(stop_notify)
  /\ WF_vars(stop_disconnect)

\* The same program, fed every payload of Strings, Counts and Combos
MaxEncEnq == 1

NextEnc ==
  \/ start
  \/ nextId <= MaxEncEnq /\ \E s \in Strings : send_string(s)
  \/ nextId <= MaxEncEnq /\ \E b \in Counts : send_backspaces(b)
  \/ nextId <= MaxEncEnq /\ \E c \in Combos : send_key_combination(c)
  \/ hook_notify
  \/ Stopper
  \/ Worker

SpecEnc == Init /\ [][NextEnc]_vars

\* The machine thread scanning while the keys move and the host stops it
NextScan ==
  keys_change \/ stop_capture \/ stop_capture_stopped \/ Scanner

SpecScan == Init /\ [][NextScan]_vars

\* The machine thread keeps running; nothing obliges the keys to move or the
\* host to call stop_capture()
FairScan == SpecScan /\ WF_vars(Scanner)

\* The host connecting the hardware and stopping the capture
NextConn == Reconnect \/ stop_capture

SpecConn == Init /\ [][NextConn]_vars

\* Any sequence of operations on a ForthStack
InitOps == InitExt /\ InitMac /\ InitConn /\ InitStack /\ hw = AllUp

NextStack ==
  \/ do_push \/ do_pop \/ do_drop \/ do_back \/ do_dup \/ do_swap \/ do_over
  \/ do_add \/ do_and \/ do_or \/ do_xor \/ do_invert \/ do_negate

SpecStack == InitOps /\ [][NextStack]_vars

\* _read_all on fixed key positions: the scanner polling, detecting,
\* confirming and accumulating while the keys stay where they are
InitRead == InitExt /\ InitMac /\ InitConn /\ InitStk /\ hw \in ReadSamples

NextRead ==
  run_ready \/ run_loop \/ scan_outer \/ scan_idle \/ scan_confirm \/ scan_acc

SpecRead == InitRead /\ [][NextRead]_vars

\* _send on an accumulated pair that _scan has just pushed
InitSend ==
  /\ InitExt
  /\ InitConn
  /\ InitStk
  /\ hw = AllUp
  /\ \E x \in SendA, y \in SendB :
       /\ stack = push(push(ForthStack, x), y).stack
       /\ sp = push(push(ForthStack, x), y).p
       /\ accA = x
       /\ accB = y
       /\ loopA = x
       /\ loopB = y
       /\ seenA = x
       /\ seenB = y
  /\ pressed = FALSE
  /\ merged = 0
  /\ mpc = "send"
  /\ finished = FALSE
  /\ cycle = NoCycle
  /\ confirms = <<1>>
  /\ mstate = "ready"
  /\ scpc = "idle"

NextSend == send

SpecSend == InitSend /\ [][NextSend]_vars

(***************************************************************************)
(* Properties of the output queue                                          *)
(***************************************************************************)
ProcessedIds == {processed[k].id : k \in DOMAIN processed}
StopNotified == spc \in {"disc1", "disc2", "disc3", "done"}
\* the worker has finished the if / elif chain for `action`
Handled == action # NoAction /\ wpc # "process"

\* C1 as stated: an action popped while other actions are in the buffer is
\* the one enqueued last of them, so that the first enqueued of a batch is
\* the last drained (LIFO).
C1_LifoWhenBatched ==
  \A k \in DOMAIN processed :
    \A j \in processed[k].rest : j < processed[k].id

\* C1 amended: an action popped while other actions are in the buffer is the
\* one enqueued first of them, and the actions are processed in the order
\* they were enqueued (FIFO).
C1_FifoWhenBatched ==
  /\ \A k \in DOMAIN processed :
       \A j \in processed[k].rest : processed[k].id < j
  /\ \A m, n \in DOMAIN processed :
       m < n => processed[m].id < processed[n].id

\* two actions of one batch have both been processed
C1_Witness ==
  /\ Len(processed) >= 2
  /\ processed[2].id \in processed[1].rest

\* C2: while stop is not requested, every enqueued action is eventually
\* processed by the worker.
C2_EnqueuedEventuallyProcessed ==
  \A i \in 1..MaxEnq :
    (i \in Ids(buffer)) ~> (i \in ProcessedIds \/ stopFlag)

\* C3: once stop() has set the flag and notified, the worker thread
\* eventually leaves run().
C3_StopTerminatesWorker == StopNotified ~> (wpc = "done")

\* C4: no action enqueued after stop() has set the flag and notified is
\* ever processed.
C4_NoProcessingAfterStop ==
  \A k \in DOMAIN processed : processed[k].id \notin lateIds

(***************************************************************************)
(* Properties of the HID encoder                                           *)
(***************************************************************************)
\* C9: a string action s writes, for each character in order, the report
\* of its lookup table entry followed by an all-zero trailer, 2 * Len(s)
\* records in all; "ab" gives the report (NO_MOD, 4), a trailer, the report
\* (NO_MOD, 5) and a trailer.
C9_StringRecords ==
  (Handled /\ action.type = "string") =>
    LET s == action.string IN
      /\ Len(dev) = 2 * Len(s)
      /\ \A i \in 1..Len(s) :
           /\ s[i] \in HidLutKeys =>
                dev[2 * i - 1] = <<hid_lut(s[i])[1], 0, hid_lut(s[i])[2], 0, 0>>
           /\ dev[2 * i] = <<0>>
      /\ s = <<"a", "b">> =>
           dev = << <<0, 0, 4, 0, 0>>, <<0>>, <<0, 0, 5, 0, 0>>, <<0>> >>

C9_Witness ==
  Handled /\ action.type = "string" /\ action.string = <<"a", "b">>

\* C10: a backspace action with count n writes n times the report with no
\* modifier and scan code 42 followed by an all-zero trailer, and nothing
\* else; with n = 0 it writes nothing.
C10_BackspaceRecords ==
  (Handled /\ action.type = "backspace") =>
    LET n == action.backspace IN
      /\ Len(dev) = 2 * n
      /\ \A i \in 1..n :
           dev[2 * i - 1] = <<0, 0, 42, 0, 0>> /\ dev[2 * i] = <<0>>
      /\ n = 0 => dev = <<>>

C10_Witness ==
  Handled /\ action.type = "backspace" /\ action.backspace = 2

(***************************************************************************)
(* Properties of the key scanner and the chord decoder                     *)
(***************************************************************************)
\* C5 as stated: the pair _scan hands to _send is the OR of every sample of
\* the press envelope, detection and confirmatory samples included.
C5_ChordIsEnvelopeOr ==
  /\ mpc = "send" => Top(Popped(St)) = seenA /\ Top(St) = seenB
  /\ cycle # NoCycle => cycle.a = seenA /\ cycle.b = seenB

\* C5 amended: the pair _scan hands to _send is the OR of every sample taken
\* in the accumulation loop, up to the all-zero release sample; the
\* detection and confirmatory samples are not accumulated.
C5_ChordIsLoopOr ==
  /\ mpc = "send" => Top(Popped(St)) = loopA /\ Top(St) = loopB
  /\ cycle # NoCycle => cycle.a = loopA /\ cycle.b = loopB

\* a chord is handed over whose detection or confirmatory sample saw a pin
\* key that the accumulation loop, which saw an expander key, did not see
C5_Witness ==
  mpc = "send" /\ seenA = 16 /\ loopA = 0 /\ loopB = 512

\* C6: the mask _read_all pops is (raw XOR 0x1ff) OR ((lo | hi << 8) XOR
\* 0xffff): bit i is set exactly when pin i, or bit i of the expander word,
\* reads low; _pressed is true exactly when that mask is non-zero.
C6_MergedMask ==
  merged # -1 =>
    /\ merged = BitOr(BitXor(PackPins(hw.pins, 9), 511),
                      BitXor(BitOr(hw.lo, Shl(hw.hi, 8)), 65535))
    /\ merged \in 0..65535
    /\ \A i \in 0..15 :
         Bit(merged, i) = 1 <=>
           \/ i < 9 /\ hw.pins[i + 1] = 0
           \/ i < 8 /\ Bit(hw.lo, i) = 0
           \/ i >= 8 /\ Bit(hw.hi, i - 8) = 0
    /\ pressed <=> merged # 0

C6_Witness ==
  pressed /\ DownA(hw) = 16 /\ DownB(hw) = 512 /\ merged = 528

\* C7: _send produces one key name per set bit of the 9 bits of a and the
\* 16 bits of b, no name twice, in the order S1- S2- T- K- P- W- H- R- A- O-
\* *1 *2 #1 -E -U -F -R -P -B -L -G -T -S -D -Z; a = 0x10 alone gives
\* [S1-], a = 0x100 with b = 0x200 gives *1 before *2.
KeyOrder ==
  <<"S1-", "S2-", "T-", "K-", "P-", "W-", "H-", "R-", "A-", "O-", "*1", "*2",
    "#1", "-E", "-U", "-F", "-R", "-P", "-B", "-L", "-G", "-T", "-S", "-D",
    "-Z">>

PopCount(x, w) == Cardinality({i \in 0..(w - 1) : Bit(x, i) = 1})

C7_KeysInStenoOrder ==
  cycle # NoCycle =>
    LET keys == cycle.keys IN
      /\ \A i \in DOMAIN keys : keys[i] \in Range(KeyOrder)
      /\ \A i, j \in DOMAIN keys :
           i < j => IndexOf(KeyOrder, keys[i]) < IndexOf(KeyOrder, keys[j])
      /\ Len(keys) = PopCount(cycle.a, 9) + PopCount(cycle.b, 16)
      /\ (cycle.a = 16 /\ cycle.b = 0) => keys = <<"S1-">>
      /\ (cycle.a = 256 /\ cycle.b = 512) => keys = <<"*1", "*2">>

C7_Witness ==
  cycle # NoCycle /\ cycle.a = 511 /\ cycle.b = 65535 /\ cycle.keys = KeyOrder

\* C8: a scan cycle notifies the host exactly when the decoded key set is
\* non-empty and keys_to_actions returns a non-empty result; the all-zero
\* pair and an unrecognised key set give no notification, and the run loop
\* goes on.
C8_NotifyIffMapped ==
  cycle # NoCycle =>
    /\ cycle.notified <=> (cycle.keys # <<>> /\ cycle.steno # <<>>)
    /\ (cycle.a = 0 /\ cycle.b = 0) => (cycle.keys = <<>> /\ ~cycle.notified)
    /\ mpc = "loop"

C8_Witness ==
  cycle # NoCycle /\ cycle.keys # <<>> /\ cycle.steno = <<>> /\ ~cycle.notified

C15_KeycomboWritesNothing ==
  Handled =>
    /\ action.type = "keycombo" =>
         /\ dev = <<>>
         /\ logged # <<>> /\ logged[Len(logged)] = action.keycombo
    /\ dev # <<>> => action.type \in {"string", "backspace"}

C15_Witness ==
  Handled /\ action.type = "keycombo" /\ Len(logged) = 1

\* C16: while stop has not been requested, the worker is blocked in _wait()
\* only if the buffer is empty, whatever the interleaving of a hook's insert
\* and notify with the worker's emptiness check and its call of _wait().
C16_WaitsOnlyWhenEmpty ==
  (wpc = "waiting" /\ ~stopFlag /\ hpc = "idle") => buffer = <<>>

\* C20: every enqueued action is processed at most once, the worker
\* processes only enqueued actions, and the buffer holds exactly the
\* actions that were enqueued and not yet popped.
Enqueued == 1..(nextId - 1)
PoppedIds == ProcessedIds \cup (IF wpc = "process" THEN {action.id} ELSE {})

C20_BufferIsPending ==
  /\ \A m, n \in DOMAIN processed :
       m # n => processed[m].id # processed[n].id
  /\ ProcessedIds \subseteq Enqueued
  /\ wpc = "process" => action.id \notin ProcessedIds
  /\ Ids(buffer) = Enqueued \ PoppedIds
  /\ Cardinality(Ids(buffer)) = Len(buffer)

\* a hook has inserted while the worker holds a popped action, after
\* another action has been processed
C20_Witness ==
  /\ Len(processed) >= 1 /\ wpc = "process" /\ buffer # <<>>
  /\ hpc = "notify"

(***************************************************************************)
(* Further properties of the key scanner                                   *)
(***************************************************************************)
\* C19: the pair _send pops is the pair the preceding _scan pushed, however
\* many leftover readings of _read_all have wrapped around the stack.
C19_SendPopsScanResult ==
  /\ mpc = "send" => Top(Popped(St)) = accA /\ Top(St) = accB
  /\ cycle # NoCycle => cycle.a = accA /\ cycle.b = accB

\* a chord was decoded after the leftovers had wrapped the stack once, with
\* a leftover pin reading on the stack that is not part of the chord
C19_Witness ==
  /\ cycle # NoCycle /\ cycle.a = 0 /\ cycle.b = 512
  /\ sp = 0
  /\ \E i \in 0..(stackSize - 1) : stack[i] = 16

\* C14: once the finished flag is set, the machine thread eventually leaves
\* run(), whatever the keys do afterwards.
C14_FinishedTerminatesScan == finished ~> (mpc = "exit")

\* C17: the first non-zero sample is followed by exactly one confirmatory
\* sample before any accumulation; after an all-zero confirmatory sample the
\* scanner is back at idle polling with no chord pushed and no _send run;
\* accumulation, and the _send after it, follow a non-zero confirmatory
\* sample only.
C17_OneConfirmatorySample ==
  /\ mpc = "settle" => pressed /\ merged # 0 /\ confirms = <<>>
  /\ Len(confirms) <= 1
  /\ (mpc \in {"acc", "send"} \/ cycle # NoCycle) =>
       Len(confirms) = 1 /\ confirms[1] # 0
  /\ (Len(confirms) = 1 /\ confirms[1] = 0) =>
       /\ mpc \in {"scan", "idle"}
       /\ ~pressed
       /\ cycle = NoCycle
       /\ Top(St) = 0 /\ Top(Popped(St)) = 0

\* the confirmatory sample was all-zero and the scanner polls again
C17_Witness ==
  Len(confirms) = 1 /\ confirms[1] = 0 /\ mpc = "idle" /\ seenB = 512

(***************************************************************************)
(* Properties of _connect and _reconnect                                   *)
(***************************************************************************)
\* C12 as stated: _connect leaves the machine ready and returns True only
\* when the mode-select pin reads high; when the pin does not read high the
\* machine is in the error state and _connect returns False.
C12_ReadyOnlyWhenPinHigh ==
  conn # NoConn =>
    /\ conn.ret => (conn.state = "ready" /\ conn.pin = 1)
    /\ conn.pin # 1 => (~conn.ret /\ conn.state = "error")

\* C12 amended: _connect leaves the machine ready and returns True exactly
\* when the setup raises nothing and the mode-select pin reads low; when the
\* pin reads high, or the setup raises, the machine is in the error state
\* and _connect returns False.
C12_ReadyOnlyWhenPinLow ==
  conn # NoConn =>
    /\ conn.ret <=> (conn.fail = "none" /\ conn.pin = 0)
    /\ conn.ret => conn.state = "ready"
    /\ ~conn.ret => conn.state = "error"
    /\ cpc \in {"while", "done"} => (mstate = conn.state /\ connected = conn.ret)

C12_Witness ==
  /\ conn # NoConn /\ conn.fail = "none" /\ conn.pin = 0
  /\ cpc = "done" /\ mstate = "ready" /\ connected

\* C13: _reconnect returns only after a successful _connect or with the
\* finished flag set, however many attempts have failed, and a failed
\* attempt leaves the machine in the error state.
C13_RetriesUntilConnected ==
  /\ cpc = "done" => (connected \/ finished)
  /\ (conn # NoConn /\ ~conn.ret) => conn.state = "error"

(***************************************************************************)
(* Properties of the ForthStack                                            *)
(***************************************************************************)
\* p + d modulo the size of fs
Wrapped(p, d) == (p + d) % fs.stackSize

\* C18: whatever operations have run on a ForthStack whose size is a power
\* of two and whose mask is size - 1, the pointer is within 0..size-1, the
\* list keeps its size and the last operation indexed it only within
\* 0..size-1; a push moves the pointer up by one modulo the size and stores
\* its item there also when that wraps, and a pop moves it down by one
\* modulo the size and returns the item it was at.
C18_PointerStaysInRange ==
  /\ fs.stackMask = fs.stackSize - 1
  /\ fs.p \in 0..(fs.stackSize - 1)
  /\ DOMAIN fs.stack = 0..(fs.stackSize - 1)
  /\ fs.used \subseteq 0..(fs.stackSize - 1)
  /\ last.op \notin {"none", "back"} => fs.used # {}
  /\ last.op = "back" => (fs.used = {} <=> fs.stackSize = 1)
  /\ last.op \in {"push", "dup", "over", "back"} => fs.p = Wrapped(last.p, 1)
  /\ last.op \in {"pop", "drop", "add", "and_", "or_", "xor"} =>
       fs.p = Wrapped(last.p, -1)
  /\ last.op \in {"swap", "invert", "negate"} => fs.p = last.p
  /\ last.op = "push" => Top(fs) = last.n
  /\ last.op = "pop" => fs.stack[last.p] = last.n

C18_Witness ==
  /\ fs.stackSize = 4
  /\ wraps = {"over", "under"}
  /\ last.op = "pop" /\ last.p = 0 /\ fs.p = fs.stackSize - 1
  /\ last.n # 0

====
